---- MODULE Spec2Model ----
(***************************************************************************)
(* Syndicate governance (crates/psy-integration/src/syndicate.rs) and the  *)
(* delegation chain (crates/sdkey-manager/src/delegation.rs) as one state  *)
(* machine.  Every public operation is one action; the wall clock read by  *)
(* the operations is the variable now, advanced by Tick.                   *)
(***************************************************************************)
EXTENDS Integers, Sequences, FiniteSets, TLC

(* ------------------------------ bounds -------------------------------- *)
MaxTime == 2
\* proposals per run: where votes are followed, where ids are followed
MaxVoteProposals == 1
MaxProposals == 2
MaxContribution == 1
MaxChainLen == 2
\* events applied to the ReputationRecord
MaxEvents == 3

(* ------------------------- program constants -------------------------- *)
\* SyndicateConfig: the defaults, proposal_duration as test_voting sets it,
\* and a max_members of two (the default is 100) so that the cap is met
min_reputation == 300
max_members == 2
voting_threshold_bps == 5000
proposal_duration == 1
requires_performance_proof == TRUE
\* literals of the code
FOUNDER_REPUTATION == 1000
MAX_REPUTATION == 1000
QUORUM_DIVISOR == 5
BPS_DENOMINATOR == 10000
\* ReputationRecord: the score of a new record, the length kept of the history
INITIAL_SCORE == 100
HISTORY_LIMIT == 100
\* ReputationTracker: the lifetime of the leaderboard cache in seconds, and
\* the Unix time of the state Init (any time later than CACHE_SECONDS)
CACHE_SECONDS == 60
UNIX_START == 100
\* a u64 is kept as four limbs of 16 bits, the least significant first
LIMB == 65536
\* the range of an i32
I32_MAX == 2147483647
I32_MIN == -I32_MAX - 1

\* config.id, as the characters of the string
config_id == <<"s", "1">>

(* ------------------------------ inputs -------------------------------- *)
Agents == {"a", "b"}
\* the agents that ask for membership: the two above and one more
Candidates == Agents \cup {"c"}
ReputationInputs == {1, 2, 250}
DeltaInputs == {-1000}
AmountInputs == {<<1, 0, 0, 0>>}
\* amounts at the ends of the range of a u64: 1 and u64::MAX
AmountEdgeInputs == {<<1, 0, 0, 0>>, <<LIMB - 1, LIMB - 1, LIMB - 1, LIMB - 1>>}
\* reputations and deltas at the ends of their ranges
ReputationEdgeInputs == {1, 1000, I32_MAX}
DeltaEdgeInputs == {I32_MIN, -999, 999, I32_MAX}
ProofInputs == {"none", "proof"}
\* a candidate below min_reputation, one without proof, one admissible, one
\* below min_reputation and without proof
MembershipInputs == {<<250, "proof">>, <<1000, "none">>, <<1000, "proof">>,
                     <<250, "none">>}
Custom == [kind |-> "Custom", agent_id |-> ""]
AddMember(agent_id) == [kind |-> "AddMember", agent_id |-> agent_id]
RemoveMember(agent_id) == [kind |-> "RemoveMember", agent_id |-> agent_id]
ProposerInputs == {"a"}
ProposalTypeInputs == {Custom}
\* the proposal type created directly where ids are followed
GovernanceTypeInputs == {RemoveMember("a")}
Delegation(delegator_id, delegatee_id, permissions, expires_at, can_redelegate) ==
    [delegator_id |-> delegator_id, delegatee_id |-> delegatee_id,
     permissions |-> permissions, expires_at |-> expires_at,
     can_redelegate |-> can_redelegate]
DelegationHolders == {"a"}
\* the delegations the caller of the Syndicate holds: both final, the second
\* valid at clock value 0 only
DelegationInputs ==
    {Delegation("a", "a", "Full", 2, FALSE),
     Delegation("b", "b", "Limited", 1, FALSE)}

\* the delegations offered to DelegationChain::add: every pair of keys, with
\* and without the right to redelegate, expiring at clock value 1 or 2
ExpiryInputs == {1, 2}
ChainDelegationInputs ==
    {Delegation(delegator_id, delegatee_id, "Limited", expires_at, can_redelegate) :
        delegator_id \in Agents, delegatee_id \in Agents,
        expires_at \in ExpiryInputs, can_redelegate \in BOOLEAN}

\* delegations of two permission levels, all expiring at clock value 2
PermissionInputs == {"Limited", "Full"}
GrantDelegationInputs ==
    {Delegation(delegator_id, delegatee_id, permissions, 2, can_redelegate) :
        delegator_id \in Agents, delegatee_id \in Agents,
        permissions \in PermissionInputs, can_redelegate \in BOOLEAN}

\* the delegator keys offered to Delegation::create: AgentSDKey.id and
\* AgentSDKey.expires_at, <<>> for None and <<t>> for Some(t)
KeyInputs == [id : Agents, expires_at : {<<>>, <<1>>, <<2>>}]
\* the expires_at offered to Delegation::create
CreateExpiryInputs == 0..3
\* the seconds that pass between the two clock reads of Delegation::create
ElapsedInputs == {0, 1}

\* ReputationEvent, its numeric fields in x and y
Event(kind, x, y) == [kind |-> kind, x |-> x, y |-> y]
\* the events applied: fixed deltas, a trade won and one lost, slashes and
\* adjustments up to the ends of the range of an i32
EventInputs ==
    {Event("GovernanceVote", 0, 0), Event("AttestationExpired", 0, 0),
     Event("TradeSuccess", 250, 20000), Event("TradeFailed", 300, 0),
     Event("Slashed", 1000, 0), Event("Slashed", I32_MIN, 0),
     Event("ManualAdjustment", 1000, 0), Event("ManualAdjustment", I32_MAX, 0)}

\* ReputationTracker: events without overflow on scores in 0..1000, and the
\* lengths asked of leaderboard
TrackerEventInputs ==
    {Event("GovernanceVote", 0, 0), Event("ManualAdjustment", 1000, 0)}
CountInputs == {1, 2}

\* AgentRegistry: the statuses, and registrations as from_sdkey and its
\* builders make them (an Option is <<>> or a sequence of one value)
RegistrationStatus == {"Pending", "Active", "Suspended", "Revoked"}
QuoteInputs == {<<"q">>}
RegistrationInputs ==
    [agent_id : Agents, public_key : {"ka", "kb"},
     attestation_quote : {<<>>, <<"q">>}, last_attestation : {0},
     status : {"Pending"}, owner_address : {<<>>, <<"o">>}]

VARIABLES
    members,           \* Syndicate.members: agent id -> SyndicateMember
    proposals,         \* Syndicate.proposals: proposal id -> Proposal
    proposal_counter,  \* Syndicate.proposal_counter
    delegations,       \* Syndicate.delegations: agent id -> DelegationChain
    chain,             \* a DelegationChain held by the caller
    now,               \* SystemTime::now() in seconds
    weight_at_vote,    \* history: <<proposal id, voter>> -> voting_power read by vote
    record,            \* a ReputationRecord
    tracker,           \* a ReputationTracker
    registry,          \* an AgentRegistry
    last               \* the call that returned last, with what it returned

vars == <<members, proposals, proposal_counter, delegations, chain, now,
          weight_at_vote, record, tracker, registry, last>>
syndicate == <<members, proposals, proposal_counter, delegations>>

(* ----------------------------- helpers -------------------------------- *)
RECURSIVE Sum(_, _)
\* the sum of f[x] over x in S
Sum(f, S) == IF S = {} THEN 0
             ELSE LET x == CHOOSE y \in S : TRUE IN f[x] + Sum(f, S \ {x})

\* the u64 of a small number n, and the u64 n below u64::MAX
u64(n) == <<n % LIMB, n \div LIMB, 0, 0>>
U64_MAX == <<LIMB - 1, LIMB - 1, LIMB - 1, LIMB - 1>>
u64_below_max(n) == <<LIMB - 1 - n, LIMB - 1, LIMB - 1, LIMB - 1>>

RECURSIVE u64_carry(_, _, _)
\* the carry of a + b into limb i
u64_carry(a, b, i) ==
    IF i = 1 THEN 0 ELSE (a[i - 1] + b[i - 1] + u64_carry(a, b, i - 1)) \div LIMB

\* u64 + u64 leaves the range of a u64
u64_add_overflows(a, b) == u64_carry(a, b, 5) = 1

\* u64 + u64 modulo 2^64, as a build without overflow checks computes it
u64_wrapping_add(a, b) ==
    [i \in 1..4 |-> (a[i] + b[i] + u64_carry(a, b, i)) % LIMB]

\* a < b for u64
u64_lt(a, b) == \E i \in 1..4 : a[i] < b[i] /\ \A j \in (i + 1)..4 : a[j] = b[j]

DigitChar == <<"0", "1", "2", "3", "4", "5", "6", "7", "8", "9">>
RECURSIVE ToDecimal(_)
\* Display of a u64: its decimal digits, most significant first
ToDecimal(n) == IF n < 10 THEN <<DigitChar[n + 1]>>
                ELSE ToDecimal(n \div 10) \o <<DigitChar[(n % 10) + 1]>>

\* format!("{}-{}", self.config.id, self.proposal_counter)
ProposalId(counter) == config_id \o <<"-">> \o ToDecimal(counter)

\* an id create_proposal never allocates (the counter is incremented first)
UnknownId == ProposalId(0)
ProposalIdInputs == DOMAIN proposals \cup {UnknownId}

\* what a call returns; fields a call does not use keep these defaults
NoCall == [op |-> "new", result |-> "Ok", status |-> "", num |-> 0,
           id |-> <<>>, required |-> 0, actual |-> 0, value |-> <<>>]
Returned(fields) == fields @@ NoCall

\* ReputationRecord::new
NewRecord == [score |-> INITIAL_SCORE, level |-> "Newcomer", history |-> <<>>,
              total_events |-> 0, last_updated |-> 0]

\* ReputationTracker::new
NewTracker == [records |-> <<>>, leaderboard_cache |-> <<>>,
               leaderboard_updated |-> 0]

\* AgentRegistry::new
NewRegistry == [agents |-> <<>>, by_public_key |-> <<>>, by_owner |-> <<>>]

(* ------------------------------ Init ---------------------------------- *)
\* Syndicate::new and DelegationChain::new
Init ==
    /\ members = <<>>
    /\ proposals = <<>>
    /\ proposal_counter = 0
    /\ delegations = <<>>
    /\ chain = <<>>
    /\ now = 0
    /\ weight_at_vote = <<>>
    /\ record = NewRecord
    /\ tracker = NewTracker
    /\ registry = NewRegistry
    /\ last = NoCall

\* the clock advances between calls
Tick ==
    /\ now < MaxTime
    /\ now' = now + 1
    /\ last' = Returned([op |-> "tick"])
    /\ UNCHANGED <<syndicate, chain, weight_at_vote, record, tracker, registry>>

(* ---------------------------- Syndicate ------------------------------- *)
\* add_founder without its check of the member map
add_founder_unguarded(agent_id) ==
    /\ members' = [a \in DOMAIN members \cup {agent_id} |->
                      IF a = agent_id
                      THEN [reputation |-> FOUNDER_REPUTATION, contribution_score |-> u64(0),
                            role |-> "Founder", voting_power |-> FOUNDER_REPUTATION,
                            active |-> TRUE]
                      ELSE members[a]]
    /\ last' = Returned([op |-> "add_founder"])
    /\ UNCHANGED <<proposals, proposal_counter, delegations, chain, now,
                   weight_at_vote, record, tracker, registry>>

add_founder(agent_id) ==
    /\ IF members # <<>>
       THEN /\ last' = Returned([op |-> "add_founder",
                                 result |-> "FounderAlreadySet"])
            /\ UNCHANGED members
       ELSE /\ members' = (agent_id :>
                    [reputation |-> FOUNDER_REPUTATION, contribution_score |-> u64(0),
                     role |-> "Founder", voting_power |-> FOUNDER_REPUTATION,
                     active |-> TRUE]) @@ members
            /\ last' = Returned([op |-> "add_founder"])
    /\ UNCHANGED <<proposals, proposal_counter, delegations, chain, now,
                   weight_at_vote, record, tracker, registry>>

add_member(agent_id, reputation) ==
    /\ IF agent_id \in DOMAIN members
       THEN /\ last' = Returned([op |-> "add_member", result |-> "AlreadyMember"])
            /\ UNCHANGED members
       ELSE /\ members' = (agent_id :>
                    [reputation |-> reputation, contribution_score |-> u64(0),
                     role |-> "Member", voting_power |-> reputation,
                     active |-> TRUE]) @@ members
            /\ last' = Returned([op |-> "add_member"])
    /\ UNCHANGED <<proposals, proposal_counter, delegations, chain, now,
                   weight_at_vote, record, tracker, registry>>

\* the Proposal create_proposal builds
NewProposal(proposal_id, proposer, proposal_type) ==
    [id |-> proposal_id, proposal_type |-> proposal_type, proposer |-> proposer,
     created_at |-> now, deadline |-> now + proposal_duration,
     votes_for |-> 0, votes_against |-> 0, voters |-> <<>>,
     status |-> "Active"]

\* a counter that is not advanced past 1
StaleCounter == IF proposal_counter = 0 THEN 1 ELSE proposal_counter

\* the counter create_proposal allocates next
NextCounter == proposal_counter + 1

\* the body of create_proposal: bump the counter, insert under the new id
InsertProposal(proposer, proposal_type) ==
    /\ proposal_counter' = NextCounter
    /\ proposals' = [id \in DOMAIN proposals \cup {ProposalId(NextCounter)} |->
            IF id = ProposalId(NextCounter)
            THEN NewProposal(id, proposer, proposal_type)
            ELSE proposals[id]]

create_proposal(proposer, proposal_type) ==
    /\ InsertProposal(proposer, proposal_type)
    /\ last' = Returned([op |-> "create_proposal",
                         id |-> ProposalId(NextCounter)])
    /\ UNCHANGED <<members, delegations, chain, now, weight_at_vote, record, tracker, registry>>

\* request_membership looking at the reputation before the member cap
request_membership_check_reputation_first(agent_id, reputation, proof) ==
    IF agent_id \in DOMAIN members THEN "AlreadyMember"
    ELSE IF reputation < min_reputation THEN "InsufficientReputation"
    ELSE IF Cardinality(DOMAIN members) >= max_members THEN "MemberLimitReached"
    ELSE IF requires_performance_proof /\ proof = "none" THEN "ProofRequired"
    ELSE "Ok"

\* the validations of request_membership, in the order of the code
request_membership_check(agent_id, reputation, proof) ==
    IF agent_id \in DOMAIN members THEN "AlreadyMember"
    ELSE IF Cardinality(DOMAIN members) >= max_members THEN "MemberLimitReached"
    ELSE IF reputation < min_reputation THEN "InsufficientReputation"
    ELSE IF requires_performance_proof /\ proof = "none" THEN "ProofRequired"
    ELSE "Ok"

\* request_membership allocating the proposal id before it validates
request_membership_allocating_first(agent_id, reputation, proof) ==
    LET r == request_membership_check(agent_id, reputation, proof) IN
    /\ proposal_counter' = NextCounter
    /\ IF r = "Ok"
       THEN /\ proposals' = (ProposalId(NextCounter) :>
                    NewProposal(ProposalId(NextCounter), "system", AddMember(agent_id)))
                    @@ proposals
            /\ last' = Returned([op |-> "request_membership",
                                 id |-> ProposalId(NextCounter)])
       ELSE /\ last' = Returned([op |-> "request_membership", result |-> r])
            /\ UNCHANGED proposals
    /\ UNCHANGED <<members, delegations, chain, now, weight_at_vote, record, tracker, registry>>

\* request_membership admitting the candidate itself
request_membership_admitting(agent_id, reputation, proof) ==
    LET r == request_membership_check(agent_id, reputation, proof) IN
    /\ IF r = "Ok"
       THEN /\ InsertProposal("system", AddMember(agent_id))
            /\ members' = (agent_id :>
                    [reputation |-> reputation, contribution_score |-> u64(0),
                     role |-> "Member", voting_power |-> reputation,
                     active |-> TRUE]) @@ members
            /\ last' = Returned([op |-> "request_membership", id |-> ProposalId(NextCounter)])
       ELSE /\ last' = Returned([op |-> "request_membership", result |-> r])
            /\ UNCHANGED <<members, proposals, proposal_counter>>
    /\ UNCHANGED <<delegations, chain, now, weight_at_vote, record, tracker, registry>>

request_membership(agent_id, reputation, proof) ==
    LET r == request_membership_check(agent_id, reputation, proof) IN
    /\ IF r = "Ok"
       THEN /\ InsertProposal("system", AddMember(agent_id))
            /\ last' = Returned([op |-> "request_membership", id |-> ProposalId(NextCounter)])
       ELSE /\ last' = Returned([op |-> "request_membership", result |-> r,
                                 required |-> IF r = "InsufficientReputation"
                                              THEN min_reputation ELSE 0,
                                 actual |-> IF r = "InsufficientReputation"
                                            THEN reputation ELSE 0])
            /\ UNCHANGED <<proposals, proposal_counter>>
    /\ UNCHANGED <<members, delegations, chain, now, weight_at_vote, record, tracker, registry>>

\* vote without its "already voted" check
vote_check_revote(ms, ps, t, proposal_id, voter) ==
    IF voter \notin DOMAIN ms THEN "NotMember"
    ELSE IF ~ms[voter].active THEN "MemberInactive"
    ELSE IF proposal_id \notin DOMAIN ps THEN "ProposalNotFound"
    ELSE IF t > ps[proposal_id].deadline THEN "VotingClosed"
    ELSE "Ok"

\* vote looking at the voter map before the deadline
vote_check_voters_first(ms, ps, t, proposal_id, voter) ==
    IF voter \notin DOMAIN ms THEN "NotMember"
    ELSE IF ~ms[voter].active THEN "MemberInactive"
    ELSE IF proposal_id \notin DOMAIN ps THEN "ProposalNotFound"
    ELSE IF voter \in DOMAIN ps[proposal_id].voters THEN "AlreadyVoted"
    ELSE IF t > ps[proposal_id].deadline THEN "VotingClosed"
    ELSE "Ok"

\* vote closing at the deadline itself
vote_check_closed_at_deadline(ms, ps, t, proposal_id, voter) ==
    IF voter \notin DOMAIN ms THEN "NotMember"
    ELSE IF ~ms[voter].active THEN "MemberInactive"
    ELSE IF proposal_id \notin DOMAIN ps THEN "ProposalNotFound"
    ELSE IF t >= ps[proposal_id].deadline THEN "VotingClosed"
    ELSE IF voter \in DOMAIN ps[proposal_id].voters THEN "AlreadyVoted"
    ELSE "Ok"

\* vote without its check of the deadline
vote_check_never_closed(ms, ps, t, proposal_id, voter) ==
    IF voter \notin DOMAIN ms THEN "NotMember"
    ELSE IF ~ms[voter].active THEN "MemberInactive"
    ELSE IF proposal_id \notin DOMAIN ps THEN "ProposalNotFound"
    ELSE IF voter \in DOMAIN ps[proposal_id].voters THEN "AlreadyVoted"
    ELSE "Ok"

\* the checks of vote, in the order of the code, on member map ms, proposal
\* map ps and clock value t
vote_check(ms, ps, t, proposal_id, voter) ==
    IF voter \notin DOMAIN ms THEN "NotMember"
    ELSE IF ~ms[voter].active THEN "MemberInactive"
    ELSE IF proposal_id \notin DOMAIN ps THEN "ProposalNotFound"
    ELSE IF t > ps[proposal_id].deadline THEN "VotingClosed"
    ELSE IF voter \in DOMAIN ps[proposal_id].voters THEN "AlreadyVoted"
    ELSE "Ok"

\* a vote counted in both accumulators
record_vote_both(proposal, voter, approve, voting_power) ==
    [proposal EXCEPT
        !.voters = (voter :> approve) @@ proposal.voters,
        !.votes_for = @ + voting_power,
        !.votes_against = @ + voting_power]

\* a vote counted in the wrong accumulator
record_vote_swapped(proposal, voter, approve, voting_power) ==
    [proposal EXCEPT
        !.voters = (voter :> approve) @@ proposal.voters,
        !.votes_for = IF approve THEN @ ELSE @ + voting_power,
        !.votes_against = IF approve THEN @ + voting_power ELSE @]

\* a vote whose weight replaces the accumulator
record_vote_overwriting(proposal, voter, approve, voting_power) ==
    [proposal EXCEPT
        !.voters = (voter :> approve) @@ proposal.voters,
        !.votes_for = IF approve THEN voting_power ELSE @,
        !.votes_against = IF approve THEN @ ELSE voting_power]

\* "Record vote": the proposal after voter's vote of weight voting_power
record_vote(proposal, voter, approve, voting_power) ==
    [proposal EXCEPT
        !.voters = (voter :> approve) @@ proposal.voters,
        !.votes_for = IF approve THEN @ + voting_power ELSE @,
        !.votes_against = IF approve THEN @ ELSE @ + voting_power]

vote(proposal_id, voter, approve) ==
    LET r == vote_check(members, proposals, now, proposal_id, voter) IN
    /\ last' = Returned([op |-> "vote", result |-> r])
    /\ IF r = "Ok"
       THEN LET voting_power == members[voter].voting_power IN
            /\ proposals' = [proposals EXCEPT ![proposal_id] =
                    record_vote(@, voter, approve, voting_power)]
            /\ weight_at_vote' = (<<proposal_id, voter>> :> voting_power)
                                    @@ weight_at_vote
       ELSE UNCHANGED <<proposals, weight_at_vote>>
    /\ UNCHANGED <<members, proposal_counter, delegations, chain, now, record, tracker, registry>>

\* the proposal map vote leaves, on member map ms, proposal map ps and
\* clock value t
voted(ms, ps, t, proposal_id, voter, approve) ==
    IF vote_check(ms, ps, t, proposal_id, voter) = "Ok"
    THEN [ps EXCEPT ![proposal_id] =
             record_vote(@, voter, approve, ms[voter].voting_power)]
    ELSE ps

\* total_voting_power: the voting power of the active members of ms
total_voting_power(ms) ==
    Sum([m \in DOMAIN ms |-> ms[m].voting_power],
        {m \in DOMAIN ms : ms[m].active})

\* finalize_proposal open to calls at the deadline itself
finalize_check_at_deadline(ps, t, proposal_id) ==
    IF proposal_id \notin DOMAIN ps THEN "ProposalNotFound"
    ELSE IF t < ps[proposal_id].deadline /\ ps[proposal_id].status = "Active"
         THEN "VotingStillOpen"
    ELSE "Ok"

\* finalize_proposal closed for one more second after the deadline
finalize_check_with_grace(ps, t, proposal_id) ==
    IF proposal_id \notin DOMAIN ps THEN "ProposalNotFound"
    ELSE IF t <= ps[proposal_id].deadline + 1 /\ ps[proposal_id].status = "Active"
         THEN "VotingStillOpen"
    ELSE "Ok"

\* the checks of finalize_proposal before it tallies
finalize_check(ps, t, proposal_id) ==
    IF proposal_id \notin DOMAIN ps THEN "ProposalNotFound"
    ELSE IF t <= ps[proposal_id].deadline /\ ps[proposal_id].status = "Active"
         THEN "VotingStillOpen"
    ELSE "Ok"

\* a quorum that must be exceeded
finalize_outcome_quorum_exceeded(votes_for, votes_against, total_power, threshold_bps) ==
    LET total_votes == votes_for + votes_against
        quorum_threshold == total_power \div QUORUM_DIVISOR
        threshold == (total_votes * threshold_bps) \div BPS_DENOMINATOR
    IN  IF total_votes <= quorum_threshold THEN "Rejected"
        ELSE IF votes_for >= threshold THEN "Passed"
        ELSE "Rejected"

\* a threshold that must be exceeded
finalize_outcome_threshold_exceeded(votes_for, votes_against, total_power, threshold_bps) ==
    LET total_votes == votes_for + votes_against
        quorum_threshold == total_power \div QUORUM_DIVISOR
        threshold == (total_votes * threshold_bps) \div BPS_DENOMINATOR
    IN  IF total_votes < quorum_threshold THEN "Rejected"
        ELSE IF votes_for > threshold THEN "Passed"
        ELSE "Rejected"

\* the quorum rule and the pass rule of finalize_proposal
finalize_outcome(votes_for, votes_against, total_power, threshold_bps) ==
    LET total_votes == votes_for + votes_against
        quorum_threshold == total_power \div QUORUM_DIVISOR
        threshold == (total_votes * threshold_bps) \div BPS_DENOMINATOR
    IN  IF total_votes < quorum_threshold THEN "Rejected"
        ELSE IF votes_for >= threshold THEN "Passed"
        ELSE "Rejected"

\* finalize_proposal carrying out a Passed AddMember or RemoveMember itself
finalize_proposal_executing(proposal_id) ==
    LET r == finalize_check(proposals, now, proposal_id) IN
    /\ IF r = "Ok"
       THEN LET status == finalize_outcome(proposals[proposal_id].votes_for,
                                           proposals[proposal_id].votes_against,
                                           total_voting_power(members),
                                           voting_threshold_bps)
                type == proposals[proposal_id].proposal_type IN
            /\ proposals' = [proposals EXCEPT ![proposal_id].status = status]
            /\ last' = Returned([op |-> "finalize_proposal",
                                 status |-> status])
            /\ members' =
                 IF status = "Passed" /\ type.kind = "RemoveMember"
                 THEN [a \in DOMAIN members \ {type.agent_id} |-> members[a]]
                 ELSE IF status = "Passed" /\ type.kind = "AddMember"
                 THEN [a \in DOMAIN members \cup {type.agent_id} |->
                         IF a \in DOMAIN members THEN members[a]
                         ELSE [reputation |-> min_reputation, contribution_score |-> u64(0),
                               role |-> "Member", voting_power |-> min_reputation,
                               active |-> TRUE]]
                 ELSE members
       ELSE /\ last' = Returned([op |-> "finalize_proposal",
                                 result |-> r])
            /\ UNCHANGED <<proposals, members>>
    /\ UNCHANGED <<proposal_counter, delegations, chain, now, weight_at_vote, record, tracker, registry>>

\* finalize_proposal marking a proposal that passed as Executed
finalize_proposal_marking_executed(proposal_id) ==
    LET r == finalize_check(proposals, now, proposal_id) IN
    /\ IF r = "Ok"
       THEN LET outcome == finalize_outcome(proposals[proposal_id].votes_for,
                                            proposals[proposal_id].votes_against,
                                            total_voting_power(members),
                                            voting_threshold_bps)
                status == IF outcome = "Passed" THEN "Executed" ELSE outcome IN
            /\ proposals' = [proposals EXCEPT ![proposal_id].status = status]
            /\ last' = Returned([op |-> "finalize_proposal",
                                 status |-> status])
       ELSE /\ last' = Returned([op |-> "finalize_proposal",
                                 result |-> r])
            /\ UNCHANGED proposals
    /\ UNCHANGED <<members, proposal_counter, delegations, chain, now,
                   weight_at_vote, record, tracker, registry>>

finalize_proposal(proposal_id) ==
    LET r == finalize_check(proposals, now, proposal_id) IN
    /\ IF r = "Ok"
       THEN LET status == finalize_outcome(proposals[proposal_id].votes_for,
                                           proposals[proposal_id].votes_against,
                                           total_voting_power(members),
                                           voting_threshold_bps) IN
            /\ proposals' = [proposals EXCEPT ![proposal_id].status = status]
            /\ last' = Returned([op |-> "finalize_proposal",
                                 status |-> status])
       ELSE /\ last' = Returned([op |-> "finalize_proposal",
                                 result |-> r])
            /\ UNCHANGED proposals
    /\ UNCHANGED <<members, proposal_counter, delegations, chain, now,
                   weight_at_vote, record, tracker, registry>>

\* i32::clamp(min, max)
clamp(x, min, max) == IF x < min THEN min ELSE IF x > max THEN max ELSE x

\* i32 + i32 leaves the range of an i32 (no intermediate value leaves it here)
add_overflows(a, b) ==
    \/ b > 0 /\ a > I32_MAX - b
    \/ b < 0 /\ a < I32_MIN - b

\* i32 + i32 modulo 2^32, as a build without overflow checks computes it
wrapping_add(a, b) ==
    IF b > 0 /\ a > I32_MAX - b THEN (a - I32_MAX - 1) + (b - I32_MAX - 1)
    ELSE IF b < 0 /\ a < I32_MIN - b THEN (a + I32_MAX + 1) + (b + I32_MAX + 1)
    ELSE a + b

\* u32 as i32, for the reputations of the model, all of them <= I32_MAX
as_i32(reputation) == reputation

\* (member.reputation as i32 + delta).clamp(0, 1000) as u32
new_reputation(reputation, delta) ==
    clamp(wrapping_add(as_i32(reputation), delta), 0, MAX_REPUTATION)

\* the member map update_reputation leaves when its sum does not overflow
updated(ms, agent_id, delta) ==
    IF agent_id \notin DOMAIN ms THEN ms
    ELSE [ms EXCEPT
            ![agent_id].reputation = new_reputation(ms[agent_id].reputation, delta),
            ![agent_id].voting_power = new_reputation(ms[agent_id].reputation, delta)]

\* update_reputation storing the reputation alone
update_reputation_stale_power(agent_id, delta) ==
    /\ IF agent_id \notin DOMAIN members
       THEN /\ last' = Returned([op |-> "update_reputation", result |-> "NotMember"])
            /\ UNCHANGED members
       ELSE LET new_rep == new_reputation(members[agent_id].reputation, delta) IN
            /\ members' = [members EXCEPT ![agent_id].reputation = new_rep]
            /\ last' = Returned([op |-> "update_reputation", num |-> new_rep])
    /\ UNCHANGED <<proposals, proposal_counter, delegations, chain, now,
                   weight_at_vote, record, tracker, registry>>

update_reputation(agent_id, delta) ==
    /\ IF agent_id \notin DOMAIN members
       THEN /\ last' = Returned([op |-> "update_reputation", result |-> "NotMember"])
            /\ UNCHANGED members
       ELSE LET new_rep == new_reputation(members[agent_id].reputation, delta) IN
            \* the sum overflows: a build with overflow checks panics there,
            \* before anything is stored; a build without them wraps
            \/ /\ add_overflows(as_i32(members[agent_id].reputation), delta)
               /\ last' = Returned([op |-> "update_reputation", result |-> "panic"])
               /\ UNCHANGED members
            \/ /\ members' = [members EXCEPT ![agent_id].reputation = new_rep,
                                             ![agent_id].voting_power = new_rep]
               /\ last' = Returned([op |-> "update_reputation", num |-> new_rep])
    /\ UNCHANGED <<proposals, proposal_counter, delegations, chain, now,
                   weight_at_vote, record, tracker, registry>>

\* the scores that are followed further: those less than MaxContribution
\* away from either end of the range of a u64
ScoreFollowed(score) ==
    \E n \in 0..(MaxContribution - 1) : score = u64(n) \/ score = u64_below_max(n)

record_contribution(agent_id, amount) ==
    /\ agent_id \in DOMAIN members =>
           ScoreFollowed(members[agent_id].contribution_score)
    /\ IF agent_id \notin DOMAIN members
       THEN /\ last' = Returned([op |-> "record_contribution", result |-> "NotMember"])
            /\ UNCHANGED members
       ELSE LET score == members[agent_id].contribution_score IN
            \* member.contribution_score += amount overflows: a build with
            \* overflow checks panics there, a build without them wraps
            \/ /\ u64_add_overflows(score, amount)
               /\ last' = Returned([op |-> "record_contribution", result |-> "panic"])
               /\ UNCHANGED members
            \/ /\ members' = [members EXCEPT ![agent_id].contribution_score =
                                                 u64_wrapping_add(score, amount)]
               /\ last' = Returned([op |-> "record_contribution"])
    /\ UNCHANGED <<proposals, proposal_counter, delegations, chain, now,
                   weight_at_vote, record, tracker, registry>>

\* set_delegation(agent_id, chain): the caller hands over its chain
set_delegation(agent_id) ==
    /\ delegations' = [a \in DOMAIN delegations \cup {agent_id} |->
                          IF a = agent_id THEN chain ELSE delegations[a]]
    /\ last' = Returned([op |-> "set_delegation"])
    /\ UNCHANGED <<members, proposals, proposal_counter, chain, now,
                   weight_at_vote, record, tracker, registry>>

(* ------------------------ ReputationRecord ---------------------------- *)
\* ReputationLevel::from_score
from_score(score) ==
    IF score <= 199 THEN "Newcomer"
    ELSE IF score <= 399 THEN "Verified"
    ELSE IF score <= 599 THEN "Established"
    ELSE IF score <= 799 THEN "Trusted"
    ELSE IF score <= 999 THEN "Elite"
    ELSE "Legendary"

\* the / of Rust on signed integers: the quotient rounded toward zero
truncating_div(a, b) == IF a >= 0 THEN a \div b ELSE -((-a) \div b)

Min(a, b) == IF a <= b THEN a ELSE b

\* -*amount leaves the range of an i32
neg_overflows(amount) == amount = I32_MIN

\* -*amount modulo 2^32
wrapping_neg(amount) == IF amount = I32_MIN THEN I32_MIN ELSE -amount

\* ReputationEvent::reputation_delta, for the fields of EventInputs (all
\* within the range of an i32)
reputation_delta(event) ==
    CASE event.kind = "TradeSuccess" ->
            clamp(truncating_div(event.x, 100), 0, 10)
                + Min(event.y \div 10000, 5)
      [] event.kind = "TradeFailed" ->
            clamp(truncating_div(-event.x, 200), -20, 0)
      [] event.kind = "GovernanceVote" -> 1
      [] event.kind = "ProposalCreated" -> IF event.x = 1 THEN 5 ELSE -2
      [] event.kind = "AttestationVerified" -> 10
      [] event.kind = "AttestationExpired" -> -20
      [] event.kind = "ProofSubmitted" -> 5
      [] event.kind = "SyndicateContribution" -> Min(event.x \div 1000, 20)
      [] event.kind = "UptimeReward" -> Min(event.x \div 24, 7)
      [] event.kind = "Slashed" -> wrapping_neg(event.x)
      [] event.kind = "ManualAdjustment" -> event.x

\* "Keep last 100 events": the history after the push of an event record
push_history(history, event_record) ==
    IF Len(history) >= HISTORY_LIMIT
    THEN Append(Tail(history), event_record)
    ELSE Append(history, event_record)

\* -*amount or score + delta of apply_event overflows on record r
apply_overflows(r, event) ==
    \/ (event.kind = "Slashed" /\ neg_overflows(event.x))
    \/ add_overflows(as_i32(r.score), reputation_delta(event))

\* the record apply_event leaves of record r at clock value t
applied(r, event, t) ==
    LET delta == reputation_delta(event)
        new_score == clamp(wrapping_add(as_i32(r.score), delta), 0, 1000)
    IN  [score |-> new_score,
         level |-> from_score(new_score),
         history |-> push_history(r.history,
             [event |-> event, delta |-> delta,
              score_after |-> new_score, timestamp |-> t]),
         total_events |-> r.total_events + 1,
         last_updated |-> t]

\* ReputationRecord::apply_event
apply_event(event) ==
    /\ record.total_events < MaxEvents
    \* -*amount or score + delta overflows: a build with overflow checks
    \* panics there, before anything is stored; a build without them wraps
    /\ \/ /\ apply_overflows(record, event)
          /\ last' = Returned([op |-> "apply_event", result |-> "panic"])
          /\ UNCHANGED record
       \/ /\ record' = applied(record, event, now)
          /\ last' = Returned([op |-> "apply_event",
                               num |-> reputation_delta(event)])
    /\ UNCHANGED <<syndicate, chain, now, weight_at_vote, tracker, registry>>

(* ----------------------- ReputationTracker ---------------------------- *)
\* ReputationTracker::get_or_create: the record map with a record for agent_id
get_or_create(records, agent_id, t) ==
    [a \in DOMAIN records \cup {agent_id} |->
        IF a \in DOMAIN records THEN records[a]
        ELSE [NewRecord EXCEPT !.last_updated = t]]

\* the events applied through the tracker so far
tracked_events ==
    Sum([a \in DOMAIN tracker.records |-> tracker.records[a].total_events],
        DOMAIN tracker.records)

\* ReputationTracker::apply_event
tracker_apply_event(agent_id, event) ==
    LET records == get_or_create(tracker.records, agent_id, now) IN
    /\ tracked_events < MaxEvents
    \* an overflow in the record's apply_event: a build with overflow checks
    \* panics after get_or_create has inserted the record
    /\ \/ /\ apply_overflows(records[agent_id], event)
          /\ tracker' = [tracker EXCEPT !.records = records]
          /\ last' = Returned([op |-> "tracker_apply_event", result |-> "panic"])
       \/ /\ tracker' = [tracker EXCEPT !.records =
                 [records EXCEPT ![agent_id] = applied(@, event, now)]]
          /\ last' = Returned([op |-> "tracker_apply_event",
                               num |-> reputation_delta(event)])
    /\ UNCHANGED <<syndicate, chain, now, weight_at_vote, record, registry>>

\* the orders sort_by(score, descending) can leave the ids of records in:
\* the sort is stable, on the iteration order of a HashMap, so ids of equal
\* score come in any order
sorted_by_score(records) ==
    {ids \in [1..Cardinality(DOMAIN records) -> DOMAIN records] :
        /\ \A i, j \in DOMAIN ids : i # j => ids[i] # ids[j]
        /\ \A i, j \in DOMAIN ids :
              i < j => records[ids[i]].score >= records[ids[j]].score}

\* "Refresh cache every 60 seconds": the caches leaderboard can hold after
\* its refresh step at Unix time t
leaderboard_cache(t) ==
    IF t - tracker.leaderboard_updated > CACHE_SECONDS
    THEN sorted_by_score(tracker.records)
    ELSE {tracker.leaderboard_cache}

\* ReputationTracker::leaderboard
leaderboard(count) ==
    LET t == UNIX_START + now IN
    /\ \E cache \in leaderboard_cache(t) :
          /\ tracker' = [tracker EXCEPT
                !.leaderboard_cache = cache,
                !.leaderboard_updated =
                    IF t - @ > CACHE_SECONDS THEN t ELSE @]
          /\ last' = Returned([op |-> "leaderboard",
                value |-> SubSeq(cache, 1, Min(count, Len(cache)))])
    /\ UNCHANGED <<syndicate, chain, now, weight_at_vote, record, registry>>

\* the clock passes the lifetime of the leaderboard cache
Wait ==
    /\ now <= MaxTime
    /\ now' = now + CACHE_SECONDS + 1
    /\ last' = Returned([op |-> "wait"])
    /\ UNCHANGED <<syndicate, chain, weight_at_vote, record, tracker, registry>>

(* -------------------------- AgentRegistry ----------------------------- *)
\* the checks of register
register_check(registration) ==
    IF registration.agent_id \in DOMAIN registry.agents THEN "AlreadyRegistered"
    ELSE IF registration.public_key \in DOMAIN registry.by_public_key
    THEN "DuplicatePublicKey"
    ELSE "Ok"

\* AgentRegistry::register
register(registration) ==
    LET r == register_check(registration)
        agent_id == registration.agent_id
        stored == IF registration.attestation_quote # <<>>
                  THEN [registration EXCEPT !.status = "Active"]
                  ELSE registration
    IN
    /\ IF r = "Ok"
       THEN /\ registry' =
                 [agents |-> (agent_id :> stored) @@ registry.agents,
                  by_public_key |-> (registration.public_key :> agent_id)
                                        @@ registry.by_public_key,
                  by_owner |->
                     IF registration.owner_address = <<>> THEN registry.by_owner
                     ELSE LET owner == registration.owner_address[1] IN
                          (owner :> Append(IF owner \in DOMAIN registry.by_owner
                                           THEN registry.by_owner[owner]
                                           ELSE <<>>, agent_id))
                              @@ registry.by_owner]
            /\ last' = Returned([op |-> "register", id |-> agent_id])
       ELSE /\ last' = Returned([op |-> "register", result |-> r])
            /\ UNCHANGED registry
    /\ UNCHANGED <<syndicate, chain, now, weight_at_vote, record, tracker>>

\* AgentRegistry::update_status
update_status(agent_id, status) ==
    /\ IF agent_id \notin DOMAIN registry.agents
       THEN /\ last' = Returned([op |-> "update_status", result |-> "NotFound"])
            /\ UNCHANGED registry
       ELSE /\ registry' = [registry EXCEPT !.agents[agent_id].status = status]
            /\ last' = Returned([op |-> "update_status"])
    /\ UNCHANGED <<syndicate, chain, now, weight_at_vote, record, tracker>>

\* AgentRegistry::refresh_attestation
refresh_attestation(agent_id, quote) ==
    /\ IF agent_id \notin DOMAIN registry.agents
       THEN /\ last' = Returned([op |-> "refresh_attestation",
                                 result |-> "NotFound"])
            /\ UNCHANGED registry
       ELSE /\ registry' = [registry EXCEPT
                 !.agents[agent_id].attestation_quote = quote,
                 !.agents[agent_id].last_attestation = now,
                 !.agents[agent_id].status =
                     IF @ = "Pending" THEN "Active" ELSE @]
            /\ last' = Returned([op |-> "refresh_attestation"])
    /\ UNCHANGED <<syndicate, chain, now, weight_at_vote, record, tracker>>

(* ------------------------- DelegationChain ---------------------------- *)
\* a delegation that becomes valid at expires_at
is_valid_not_before(delegation, t) == t >= delegation.expires_at

\* Delegation::is_valid at clock value t
is_valid(delegation, t) == t < delegation.expires_at

\* add looking at the expiry before the chain
add_check_expiry_first(delegations_, delegation, t) ==
    IF ~is_valid(delegation, t) THEN "Expired"
    ELSE IF Len(delegations_) > 0
       /\ delegations_[Len(delegations_)].delegatee_id # delegation.delegator_id
    THEN "ChainBroken"
    ELSE IF Len(delegations_) > 0 /\ ~delegations_[Len(delegations_)].can_redelegate
    THEN "RedelegationNotAllowed"
    ELSE "Ok"

\* add without its check of can_redelegate
add_check_any_redelegation(delegations_, delegation, t) ==
    IF Len(delegations_) > 0
       /\ delegations_[Len(delegations_)].delegatee_id # delegation.delegator_id
    THEN "ChainBroken"
    ELSE IF ~is_valid(delegation, t) THEN "Expired"
    ELSE "Ok"

\* AgentSDKey::is_expired at clock value t
is_expired(key, t) == key.expires_at # <<>> /\ t >= key.expires_at[1]

\* Delegation::create signing before it looks at expires_at
create_check_signing_first(delegator, expires_at, t, t_sign) ==
    IF is_expired(delegator, t_sign) THEN "SigningError"
    ELSE IF expires_at <= t THEN "InvalidExpiration"
    ELSE "Ok"

\* the checks of Delegation::create: expires_at against the clock read on
\* entry (t), the key against the clock read by sign (t_sign)
create_check(delegator, expires_at, t, t_sign) ==
    IF expires_at <= t THEN "InvalidExpiration"
    ELSE IF is_expired(delegator, t_sign) THEN "SigningError"
    ELSE "Ok"

\* Delegation::create; the signature and created_at of the result are not
\* kept, nothing here reads them
create(delegator, delegatee_id, permissions, expires_at, can_redelegate, elapsed) ==
    LET r == create_check(delegator, expires_at, now, now + elapsed) IN
    /\ now + elapsed <= MaxTime
    /\ r = "InvalidExpiration" => elapsed = 0
    /\ now' = now + elapsed
    /\ last' = IF r = "Ok"
               THEN Returned([op |-> "create",
                              value |-> <<Delegation(delegator.id, delegatee_id,
                                                     permissions, expires_at,
                                                     can_redelegate)>>])
               ELSE Returned([op |-> "create", result |-> r])
    /\ UNCHANGED <<syndicate, chain, weight_at_vote, record, tracker, registry>>

\* the checks of DelegationChain::add, in the order of the code
add_check(delegations_, delegation, t) ==
    IF Len(delegations_) > 0
       /\ delegations_[Len(delegations_)].delegatee_id # delegation.delegator_id
    THEN "ChainBroken"
    ELSE IF Len(delegations_) > 0 /\ ~delegations_[Len(delegations_)].can_redelegate
    THEN "RedelegationNotAllowed"
    ELSE IF ~is_valid(delegation, t) THEN "Expired"
    ELSE "Ok"

\* add putting the new link in front
add_in_front(delegation) ==
    LET r == add_check(chain, delegation, now) IN
    /\ r = "Ok" => Len(chain) < MaxChainLen
    /\ chain' = IF r = "Ok" THEN <<delegation>> \o chain ELSE chain
    /\ last' = Returned([op |-> "add", result |-> r])
    /\ UNCHANGED <<syndicate, now, weight_at_vote, record, tracker, registry>>

\* DelegationChain::add on the caller's chain
add(delegation) ==
    LET r == add_check(chain, delegation, now) IN
    /\ r = "Ok" => Len(chain) < MaxChainLen
    /\ chain' = IF r = "Ok" THEN Append(chain, delegation) ELSE chain
    /\ last' = Returned([op |-> "add", result |-> r])
    /\ UNCHANGED <<syndicate, now, weight_at_vote, record, tracker, registry>>

\* DelegationChain::new: the caller starts another chain
new ==
    /\ chain # <<>>
    /\ chain' = <<>>
    /\ last' = Returned([op |-> "new_chain"])
    /\ UNCHANGED <<syndicate, now, weight_at_vote, record, tracker, registry>>

\* the narrowest grant along the chain
effective_permissions_narrowest(delegations_) ==
    IF Len(delegations_) = 0 THEN "None"
    ELSE IF \E i \in 1..Len(delegations_) : delegations_[i].permissions = "Limited"
    THEN "Limited"
    ELSE delegations_[Len(delegations_)].permissions

\* DelegationChain::effective_permissions: Option<&AgentPermissions>
effective_permissions(delegations_) ==
    IF Len(delegations_) = 0 THEN "None"
    ELSE delegations_[Len(delegations_)].permissions

RECURSIVE validate_from(_, _, _)
\* the loop of DelegationChain::validate from index i (counted from 0) on
validate_from(delegations_, t, i) ==
    IF i >= Len(delegations_) THEN [result |-> "Ok", index |-> 0]
    ELSE IF ~is_valid(delegations_[i + 1], t)
    THEN [result |-> "ExpiredAtIndex", index |-> i]
    ELSE IF i > 0 /\ delegations_[i].delegatee_id # delegations_[i + 1].delegator_id
    THEN [result |-> "ChainBrokenAtIndex", index |-> i]
    ELSE validate_from(delegations_, t, i + 1)

\* validate leaving out the first link
validate_result_from_second(delegations_, t) == validate_from(delegations_, t, 1)

\* DelegationChain::validate at clock value t
validate_result(delegations_, t) == validate_from(delegations_, t, 0)

\* DelegationChain::validate on the caller's chain
validate ==
    /\ last' = Returned([op |-> "validate",
                         result |-> validate_result(chain, now).result,
                         num |-> validate_result(chain, now).index])
    /\ UNCHANGED <<syndicate, chain, now, weight_at_vote, record, tracker, registry>>

(* -------------------------- specifications --------------------------- *)
\* create_proposal and request_membership while fewer than max proposals exist
CreateUpTo(max, proposers, types) ==
    /\ proposal_counter < max
    /\ \E proposer \in proposers, proposal_type \in types :
           create_proposal(proposer, proposal_type)
RequestFrom(agents, max) ==
    \E agent_id \in agents, input \in MembershipInputs :
        /\ request_membership_check(agent_id, input[1], input[2]) = "Ok"
               => proposal_counter < max
        /\ request_membership(agent_id, input[1], input[2])
RequestUpTo(max) == RequestFrom(Agents, max)

\* Spec: members, one proposal, its votes and its finalization
Next ==
    \/ Tick
    \/ \E agent_id \in Agents : add_founder(agent_id)
    \/ \E agent_id \in Agents, reputation \in ReputationInputs :
           add_member(agent_id, reputation)
    \/ CreateUpTo(MaxVoteProposals, ProposerInputs, ProposalTypeInputs)
    \/ \E proposal_id \in ProposalIdInputs, voter \in Agents, approve \in BOOLEAN :
           vote(proposal_id, voter, approve)
    \/ \E proposal_id \in ProposalIdInputs : finalize_proposal(proposal_id)
    \/ \E agent_id \in Agents, delta \in DeltaInputs :
           update_reputation(agent_id, delta)

Spec == Init /\ [][Next]_vars

\* SpecAll: every operation of the Syndicate and of the caller's chain
NextAll ==
    \/ Tick
    \/ add_founder("a")
    \/ add_member("b", 250)
    \/ CreateUpTo(MaxVoteProposals, ProposerInputs, ProposalTypeInputs)
    \/ RequestUpTo(MaxVoteProposals)
    \/ \E proposal_id \in ProposalIdInputs, voter \in Agents :
           vote(proposal_id, voter, TRUE)
    \/ \E proposal_id \in ProposalIdInputs : finalize_proposal(proposal_id)
    \/ \E agent_id \in Agents, delta \in DeltaInputs :
           update_reputation(agent_id, delta)
    \/ \E amount \in AmountInputs : record_contribution("a", amount)
    \/ \E agent_id \in DelegationHolders : set_delegation(agent_id)
    \/ \E delegation \in DelegationInputs : add(delegation)
    \/ new

SpecAll == Init /\ [][NextAll]_vars

\* SpecProposals: the allocation of proposal ids
NextProposals ==
    \/ Tick
    \/ add_member("a", 250)
    \/ CreateUpTo(MaxProposals, ProposerInputs, GovernanceTypeInputs)
    \/ RequestUpTo(MaxProposals)
    \/ \E proposal_id \in ProposalIdInputs : vote(proposal_id, "a", TRUE)
    \/ \E proposal_id \in ProposalIdInputs : finalize_proposal(proposal_id)

SpecProposals == Init /\ [][NextProposals]_vars

\* SpecReputation: members and their reputations, at the ends of the ranges
NextReputation ==
    \/ \E agent_id \in Agents : add_founder(agent_id)
    \/ \E agent_id \in Agents, reputation \in ReputationEdgeInputs :
           add_member(agent_id, reputation)
    \/ \E agent_id \in Agents, delta \in DeltaEdgeInputs :
           update_reputation(agent_id, delta)

SpecReputation == Init /\ [][NextReputation]_vars

\* SpecMembership: the ways into the member map, and the proposals that
\* request_membership creates
NextMembership ==
    \/ Tick
    \/ \E agent_id \in Agents : add_founder(agent_id)
    \/ \E agent_id \in Agents : add_member(agent_id, 250)
    \/ RequestFrom(Candidates, MaxProposals)

SpecMembership == Init /\ [][NextMembership]_vars

\* SpecChain: one DelegationChain, built by add
NextChain ==
    \/ Tick
    \/ \E delegation \in ChainDelegationInputs : add(delegation)
    \/ validate
    \/ new

SpecChain == Init /\ [][NextChain]_vars

\* the chains of at most MaxChainLen links, continuous or not: what
\* Deserialize for DelegationChain accepts
AnyChains == UNION {[1..n -> ChainDelegationInputs] : n \in 0..MaxChainLen}

\* a chain that was deserialized, in a new Syndicate
InitDeserialized ==
    /\ members = <<>>
    /\ proposals = <<>>
    /\ proposal_counter = 0
    /\ delegations = <<>>
    /\ chain \in AnyChains
    /\ now = 0
    /\ weight_at_vote = <<>>
    /\ record = NewRecord
    /\ tracker = NewTracker
    /\ registry = NewRegistry
    /\ last = NoCall

\* SpecValidate: validate on any chain at any clock value
NextValidate ==
    \/ Tick
    \/ validate

SpecValidate == InitDeserialized /\ [][NextValidate]_vars

\* SpecPermissions: one DelegationChain whose links carry different grants
NextPermissions ==
    \/ Tick
    \/ \E delegation \in GrantDelegationInputs : add(delegation)
    \/ new

SpecPermissions == Init /\ [][NextPermissions]_vars

\* SpecCreate: Delegation::create at every clock value
NextCreate ==
    \/ Tick
    \/ \E delegator \in KeyInputs, delegatee_id \in Agents,
          permissions \in PermissionInputs, expires_at \in CreateExpiryInputs,
          can_redelegate \in BOOLEAN, elapsed \in ElapsedInputs :
            create(delegator, delegatee_id, permissions, expires_at,
                   can_redelegate, elapsed)

SpecCreate == Init /\ [][NextCreate]_vars

\* SpecContribution: members and their contribution scores, at the ends of
\* the range
NextContribution ==
    \/ \E agent_id \in Agents : add_founder(agent_id)
    \/ \E agent_id \in Agents : add_member(agent_id, 250)
    \/ \E agent_id \in Agents, amount \in AmountEdgeInputs :
           record_contribution(agent_id, amount)
    \/ \E agent_id \in Agents, delta \in DeltaInputs :
           update_reputation(agent_id, delta)

SpecContribution == Init /\ [][NextContribution]_vars

\* SpecRecord: one ReputationRecord changed through apply_event
NextRecord ==
    \/ Tick
    \/ \E event \in EventInputs : apply_event(event)

SpecRecord == Init /\ [][NextRecord]_vars

\* the ids create_proposal can allocate
AllocatedIds == {ProposalId(n) : n \in 1..MaxProposals}

\* SpecLazy: proposals, votes and finalization under a clock that keeps
\* advancing and a caller that keeps calling finalize_proposal
NextLazy ==
    \/ Tick
    \/ add_member("a", 250)
    \/ CreateUpTo(MaxProposals, ProposerInputs, ProposalTypeInputs)
    \/ \E proposal_id \in ProposalIdInputs : vote(proposal_id, "a", TRUE)
    \/ \E proposal_id \in ProposalIdInputs : finalize_proposal(proposal_id)

SpecLazy ==
    /\ Init /\ [][NextLazy]_vars
    /\ WF_vars(Tick)
    /\ \A proposal_id \in AllocatedIds : WF_vars(finalize_proposal(proposal_id))

\* SpecCap: the three ways into the member map, with one candidate more than
\* max_members
NextCap ==
    \/ \E agent_id \in Candidates : add_founder(agent_id)
    \/ \E agent_id \in Candidates : add_member(agent_id, 250)
    \/ RequestFrom(Candidates, MaxProposals)

SpecCap == Init /\ [][NextCap]_vars

\* SpecDecay: any chain, deserialized, then extended by add while the clock
\* advances
NextDecay ==
    \/ Tick
    \/ \E delegation \in ChainDelegationInputs : add(delegation)
    \/ validate

SpecDecay == InitDeserialized /\ [][NextDecay]_vars

\* SpecTracker: one ReputationTracker, its events and its leaderboard
NextTracker ==
    \/ Tick
    \/ Wait
    \/ \E agent_id \in Agents, event \in TrackerEventInputs :
           tracker_apply_event(agent_id, event)
    \/ \E count \in CountInputs : leaderboard(count)

SpecTracker == Init /\ [][NextTracker]_vars

\* SpecRegistry: one AgentRegistry
NextRegistry ==
    \/ Tick
    \/ \E registration \in RegistrationInputs : register(registration)
    \/ \E agent_id \in Agents, status \in RegistrationStatus :
           update_status(agent_id, status)
    \/ \E agent_id \in Agents, quote \in QuoteInputs :
           refresh_attestation(agent_id, quote)

SpecRegistry == Init /\ [][NextRegistry]_vars

(* ------------------------------ claims -------------------------------- *)
Terminal == {"Passed", "Rejected"}
Votes(proposal) == proposal.votes_for + proposal.votes_against
\* the last call was a finalize_proposal that returned Ok
Finalized == last.op = "finalize_proposal" /\ last.result = "Ok"

\* C1: once a proposal's status is Passed or Rejected, no later call of any
\* operation changes that status.
C1_TerminalStatusIsFinal ==
    [][\A id \in DOMAIN proposals :
            proposals[id].status \in Terminal
                => proposals'[id].status = proposals[id].status]_vars

\* C2, as claimed: once a member is in a proposal's voter map, every vote
\* of that member on that proposal fails with AlreadyVoted and changes nothing.
C2_RevoteAlwaysAlreadyVoted ==
    [][\A id \in DOMAIN proposals, voter \in Agents, approve \in BOOLEAN :
            (voter \in DOMAIN proposals[id].voters /\ vote(id, voter, approve))
                => last'.result = "AlreadyVoted" /\ proposals' = proposals]_vars

\* C2, amended: a recorded vote stays recorded, and every later vote of that
\* member on that proposal fails and changes nothing: with AlreadyVoted while
\* now <= deadline, with VotingClosed once now > deadline.
C2_RevoteFails ==
    [][\A id \in DOMAIN proposals :
        \A voter \in DOMAIN proposals[id].voters :
            /\ id \in DOMAIN proposals'
            /\ voter \in DOMAIN proposals'[id].voters
            /\ proposals'[id].voters[voter] = proposals[id].voters[voter]
            /\ voter \in DOMAIN members'
            /\ \A approve \in BOOLEAN :
                 vote(id, voter, approve) =>
                    /\ last'.result = IF now > proposals[id].deadline
                                        THEN "VotingClosed" ELSE "AlreadyVoted"
                    /\ proposals' = proposals
                    /\ members' = members]_vars

\* C2 witness: a second vote was refused while the voting was still open
C2_Witness ==
    /\ last.op = "vote" /\ last.result = "AlreadyVoted"
    /\ \E id \in DOMAIN proposals :
           now <= proposals[id].deadline /\ DOMAIN proposals[id].voters # {}

\* C3: on an Active proposal at now <= deadline, finalize_proposal fails with
\* VotingStillOpen whatever the tally is, and the status stays Active.
C3_FinalizeBeforeDeadline ==
    [][\A id \in DOMAIN proposals :
            (/\ proposals[id].status = "Active"
             /\ now <= proposals[id].deadline
             /\ finalize_proposal(id))
                => /\ last'.result = "VotingStillOpen"
                   /\ proposals'[id].status = "Active"]_vars

\* C3 witness: finalize_proposal was refused at the deadline itself, on a
\* proposal with votes for and against
C3_Witness ==
    /\ last.op = "finalize_proposal" /\ last.result = "VotingStillOpen"
    /\ \E id \in DOMAIN proposals :
           /\ now = proposals[id].deadline
           /\ proposals[id].votes_for > 0 /\ proposals[id].votes_against > 0

\* C4: when finalize_proposal succeeds with total_votes < T div 5 (T the
\* voting power of the active members) the result is Rejected; at
\* total_votes = T div 5 the quorum is met and the pass rule alone decides.
C4_QuorumRule ==
    [][\A id \in DOMAIN proposals :
            (finalize_proposal(id) /\ last'.result = "Ok") =>
                LET T == Sum([m \in DOMAIN members |-> members[m].voting_power],
                             {m \in DOMAIN members : members[m].active})
                    total_votes == Votes(proposals[id])
                IN  /\ last'.status = proposals'[id].status
                    /\ total_votes < T \div 5 => last'.status = "Rejected"
                    /\ total_votes = T \div 5 =>
                         (last'.status = "Passed" <=>
                            proposals[id].votes_for >=
                              (total_votes * voting_threshold_bps) \div 10000)
        ]_vars

\* C4 witness: a proposal passed with votes cast exactly equal to a fifth of
\* the active voting power
C4_Witness ==
    /\ Finalized /\ last.status = "Passed"
    /\ \E id \in DOMAIN proposals :
           /\ proposals[id].status = "Passed"
           /\ Votes(proposals[id]) > 0
           /\ Votes(proposals[id]) = total_voting_power(members) \div 5

\* C5: when finalize_proposal succeeds and the quorum is met, the status set
\* and returned is Passed iff votes_for >= (total_votes * bps) div 10000,
\* Rejected otherwise; 1500 for / 500 against passes, 900 for / 1100 against
\* is rejected at 5000 bps.
C5_PassRule ==
    [][/\ voting_threshold_bps = 5000 =>
            /\ finalize_outcome(1500, 500, 2000, voting_threshold_bps) = "Passed"
            /\ finalize_outcome(900, 1100, 2000, voting_threshold_bps) = "Rejected"
       /\ \A id \in DOMAIN proposals :
            (/\ finalize_proposal(id) /\ last'.result = "Ok"
             /\ Votes(proposals[id]) >= total_voting_power(members) \div 5) =>
                /\ last'.status = proposals'[id].status
                /\ last'.status \in Terminal
                /\ last'.status = "Passed" <=>
                     proposals[id].votes_for >=
                       (Votes(proposals[id]) * voting_threshold_bps) \div 10000
      ]_vars

\* C5 witness: the truncation decided: 1 for, 2 against, threshold 15000 div
\* 10000 = 1, Passed
C5_Witness ==
    /\ Finalized /\ last.status = "Passed"
    /\ \E id \in DOMAIN proposals :
           /\ proposals[id].votes_for = 1 /\ proposals[id].votes_against = 2
           /\ proposals[id].status = "Passed"

\* the voting power voter holds now / held when it voted on proposal id
PowerNow(voter) == members[voter].voting_power
PowerAtVote(id, voter) == weight_at_vote[<<id, voter>>]
RECURSIVE SumOver(_, _, _)
\* the sum of Weight(id, voter) over the voters in S
SumOver(Weight(_, _), id, S) ==
    IF S = {} THEN 0
    ELSE LET v == CHOOSE x \in S : TRUE
         IN  Weight(id, v) + SumOver(Weight, id, S \ {v})
CurrentWeight(id, voter) == PowerNow(voter)

\* C6, as claimed: votes_for + votes_against never exceeds the sum of the
\* current voting power of the members in the voter map.
C6_TallyWithinCurrentPower ==
    \A id \in DOMAIN proposals :
        Votes(proposals[id]) <=
            SumOver(CurrentWeight, id, DOMAIN proposals[id].voters)

\* C6, amended: votes_for + votes_against never exceeds the sum, over the
\* members in the voter map, each counted once, of the voting power each
\* held when it voted; it stays within their current voting power as long
\* as no voter's power was lowered after its vote.
C6_TallyWithinPowerAtVote ==
    \A id \in DOMAIN proposals :
        LET voters == DOMAIN proposals[id].voters IN
        /\ voters \subseteq DOMAIN members
        /\ \A v \in voters : <<id, v>> \in DOMAIN weight_at_vote
        /\ Votes(proposals[id]) <= SumOver(PowerAtVote, id, voters)
        /\ (\A v \in voters : PowerNow(v) >= PowerAtVote(id, v))
              => Votes(proposals[id]) <= SumOver(CurrentWeight, id, voters)

\* C6 witness: update_reputation lowered a member that had voted, and the
\* tally now exceeds the voters' current power
C6_Witness ==
    /\ last.op = "update_reputation" /\ last.result = "Ok"
    /\ \E id \in DOMAIN proposals :
           /\ \E v \in DOMAIN proposals[id].voters : PowerNow(v) < PowerAtVote(id, v)
           /\ Votes(proposals[id]) >
                 SumOver(CurrentWeight, id, DOMAIN proposals[id].voters)

\* every tally is the sum of the powers at vote time of its voters
TalliesArePowersAtVote ==
    \A id \in DOMAIN proposals :
        LET p == proposals[id] IN
        /\ p.votes_for = SumOver(PowerAtVote, id,
                              {v \in DOMAIN p.voters : p.voters[v]})
        /\ p.votes_against = SumOver(PowerAtVote, id,
                              {v \in DOMAIN p.voters : ~p.voters[v]})

\* C7: a successful vote adds the voter's voting power at call time to the
\* accumulator of its choice, records the choice and leaves the other
\* accumulator untouched; no other step changes a recorded tally or voter
\* map; so votes_for / votes_against are the sums of the powers at vote time
\* of the voters recorded true / false.
C7_TallyIsPowerAtVote ==
    [][/\ \A id \in DOMAIN proposals', voter \in Agents, approve \in BOOLEAN :
            (vote(id, voter, approve) /\ last'.result = "Ok") =>
                /\ proposals'[id].votes_for = proposals[id].votes_for
                      + (IF approve THEN members[voter].voting_power ELSE 0)
                /\ proposals'[id].votes_against = proposals[id].votes_against
                      + (IF approve THEN 0 ELSE members[voter].voting_power)
                /\ proposals'[id].voters = [v \in DOMAIN proposals[id].voters
                                                     \cup {voter} |->
                       IF v = voter THEN approve ELSE proposals[id].voters[v]]
                /\ voter \notin DOMAIN proposals[id].voters
                /\ PowerAtVote(id, voter)' = members[voter].voting_power
       /\ ~(last'.op = "vote" /\ last'.result = "Ok") =>
            \A id \in DOMAIN proposals :
                /\ proposals'[id].votes_for = proposals[id].votes_for
                /\ proposals'[id].votes_against = proposals[id].votes_against
                /\ proposals'[id].voters = proposals[id].voters
       /\ TalliesArePowersAtVote'
      ]_vars

\* C7 witness: votes for and against are recorded, and a later
\* update_reputation changed a voter's power without touching the tally
C7_Witness ==
    /\ last.op = "update_reputation" /\ last.result = "Ok"
    /\ \E id \in DOMAIN proposals :
           /\ proposals[id].votes_for > 0 /\ proposals[id].votes_against > 0
           /\ \E v \in DOMAIN proposals[id].voters : PowerNow(v) # PowerAtVote(id, v)

\* the result the documented order gives vote(id, voter, _) in this state
FirstVoteError(id, voter) ==
    CASE voter \notin DOMAIN members -> "NotMember"
      [] voter \in DOMAIN members /\ ~members[voter].active -> "MemberInactive"
      [] voter \in DOMAIN members /\ members[voter].active
            /\ id \notin DOMAIN proposals -> "ProposalNotFound"
      [] voter \in DOMAIN members /\ members[voter].active
            /\ id \in DOMAIN proposals /\ now > proposals[id].deadline
            -> "VotingClosed"
      [] voter \in DOMAIN members /\ members[voter].active
            /\ id \in DOMAIN proposals /\ now <= proposals[id].deadline
            /\ voter \in DOMAIN proposals[id].voters -> "AlreadyVoted"
      [] OTHER -> "Ok"

\* a deactivated member, which no operation of the Syndicate produces
InactiveMember == [reputation |-> 250, contribution_score |-> u64(0), role |-> "Member",
                   voting_power |-> 250, active |-> FALSE]

\* C8: vote returns the first applicable of NotMember, MemberInactive,
\* ProposalNotFound, VotingClosed, AlreadyVoted, in that order, and succeeds
\* iff none applies.
C8_VoteErrorOrder ==
    [][/\ \A id \in ProposalIdInputs, voter \in Agents, approve \in BOOLEAN :
            vote(id, voter, approve) => last'.result = FirstVoteError(id, voter)
       /\ vote_check("a" :> InactiveMember, proposals, now, UnknownId, "a")
             = "MemberInactive"
       /\ vote_check("a" :> InactiveMember, proposals, now, UnknownId, "b")
             = "NotMember"
       /\ \A id \in DOMAIN proposals :
            vote_check("a" :> InactiveMember, proposals, now, id, "a")
               = "MemberInactive"
      ]_vars

\* C8 witness: every member had voted, the deadline passed, and a member's
\* vote was refused with VotingClosed
C8_Witness ==
    /\ last.op = "vote" /\ last.result = "VotingClosed"
    /\ members # <<>>
    /\ \E id \in DOMAIN proposals :
           /\ now > proposals[id].deadline
           /\ DOMAIN members \subseteq DOMAIN proposals[id].voters

\* C9: a call that returns an error leaves the member map, the proposal
\* map, the proposal counter, the delegation table and the chain unchanged.
C9_FailedCallChangesNothing ==
    [][last'.result # "Ok" =>
          /\ last'.op \in {"add_founder", "request_membership", "add_member", "vote",
                           "finalize_proposal", "update_reputation",
                           "record_contribution", "add"}
          /\ members' = members
          /\ proposals' = proposals
          /\ proposal_counter' = proposal_counter
          /\ delegations' = delegations
          /\ chain' = chain]_vars

\* C9 witness: request_membership was refused for a missing proof in a
\* syndicate that has members, a voted proposal and an attached chain
C9_Witness ==
    /\ last.op = "request_membership" /\ last.result = "ProofRequired"
    /\ members # <<>>
    /\ \E id \in DOMAIN proposals : DOMAIN proposals[id].voters # {}
    /\ \E a \in DOMAIN delegations : delegations[a] # <<>>

\* the formatted ids of distinct counters differ, past one decimal digit
IdsOfDistinctCountersDiffer ==
    \A i, j \in 0..(MaxProposals + 10) : ProposalId(i) = ProposalId(j) => i = j

\* C10: create_proposal always succeeds; each proposal created, directly or
\* by request_membership, gets the id "{syndicate-id}-{counter}" of the
\* counter advanced by one; ids are pairwise distinct, no proposal is
\* overwritten or removed, and the counter is the number created.
C10_ProposalIdsFresh ==
    [][/\ last'.op = "create_proposal" => last'.result = "Ok"
       /\ (last'.op \in {"create_proposal", "request_membership"}
              /\ last'.result = "Ok") =>
            /\ proposal_counter' = proposal_counter + 1
            /\ last'.id = ProposalId(proposal_counter')
            /\ last'.id \notin DOMAIN proposals
            /\ DOMAIN proposals' = DOMAIN proposals \cup {last'.id}
            /\ proposals'[last'.id].id = last'.id
            /\ proposals'[last'.id].status = "Active"
       /\ ~(last'.op \in {"create_proposal", "request_membership"}
              /\ last'.result = "Ok") =>
            /\ proposal_counter' = proposal_counter
            /\ DOMAIN proposals' = DOMAIN proposals
       /\ \A id \in DOMAIN proposals :
            /\ id \in DOMAIN proposals'
            /\ proposals'[id].id = proposals[id].id
            /\ proposals'[id].proposal_type = proposals[id].proposal_type
            /\ proposals'[id].proposer = proposals[id].proposer
            /\ proposals'[id].deadline = proposals[id].deadline
       /\ DOMAIN proposals' = {ProposalId(k) : k \in 1..proposal_counter'}
       /\ Cardinality(DOMAIN proposals') = proposal_counter'
       /\ IdsOfDistinctCountersDiffer
      ]_vars

\* C10 witness: a proposal was created after an earlier one was finalized
C10_Witness ==
    /\ last.op \in {"create_proposal", "request_membership"} /\ last.result = "Ok"
    /\ proposal_counter = 2
    /\ last.id = ProposalId(2)
    /\ proposals[ProposalId(1)].status \in Terminal

MathClamp(reputation, delta) ==
    IF delta >= MAX_REPUTATION - reputation THEN MAX_REPUTATION
    ELSE IF delta <= -reputation THEN 0
    ELSE reputation + delta

\* C12: for every member and every i32 delta, the largest and the smallest
\* included, update_reputation returns and stores
\* min(1000, max(0, reputation + delta)) of the integers, without overflow or
\* abort; an unknown id fails with NotMember.
C12_ClampedUpdate ==
    [][\A agent_id \in Agents, delta \in DeltaEdgeInputs :
          update_reputation(agent_id, delta) =>
            IF agent_id \in DOMAIN members
            THEN /\ last'.result = "Ok"
                 /\ last'.num = MathClamp(members[agent_id].reputation, delta)
                 /\ members'[agent_id].reputation = last'.num
            ELSE /\ last'.result = "NotMember"
                 /\ members' = members]_vars

\* the members of role Founder
Founders == {agent_id \in DOMAIN members : members[agent_id].role = "Founder"}

\* C13: add_founder succeeds iff the member map is empty, creating an active
\* Founder of reputation 1000 and voting power 1000, and fails with
\* FounderAlreadySet otherwise; so there is at most one Founder, and it was
\* the first member inserted: a Founder appears only in a step from the empty
\* map, and no member is removed or changes its role.
C13_OneFounderFirst ==
    [][/\ \A agent_id \in Agents :
            add_founder(agent_id) =>
                IF members = <<>>
                THEN /\ last'.result = "Ok"
                     /\ DOMAIN members' = {agent_id}
                     /\ members'[agent_id].role = "Founder"
                     /\ members'[agent_id].reputation = 1000
                     /\ members'[agent_id].voting_power = 1000
                     /\ members'[agent_id].active
                ELSE /\ last'.result = "FounderAlreadySet"
                     /\ members' = members
       /\ \A agent_id \in Founders' : members = <<>> \/ agent_id \in Founders
       /\ \A agent_id \in DOMAIN members :
            /\ agent_id \in DOMAIN members'
            /\ members'[agent_id].role = members[agent_id].role
       /\ Cardinality(Founders') <= 1
      ]_vars

\* C13 witness: add_founder was refused in a syndicate that has its Founder
\* and a later Member
C13_Witness ==
    /\ last.op = "add_founder" /\ last.result = "FounderAlreadySet"
    /\ Cardinality(Founders) = 1
    /\ DOMAIN members = Agents

\* the result the documented order gives request_membership in this state
FirstMembershipError(agent_id, reputation, proof) ==
    CASE agent_id \in DOMAIN members -> "AlreadyMember"
      [] agent_id \notin DOMAIN members
            /\ Cardinality(DOMAIN members) >= max_members -> "MemberLimitReached"
      [] agent_id \notin DOMAIN members
            /\ Cardinality(DOMAIN members) < max_members
            /\ reputation < min_reputation -> "InsufficientReputation"
      [] agent_id \notin DOMAIN members
            /\ Cardinality(DOMAIN members) < max_members
            /\ reputation >= min_reputation
            /\ requires_performance_proof /\ proof = "none" -> "ProofRequired"
      [] OTHER -> "Ok"

\* C14: request_membership returns the first applicable of AlreadyMember,
\* MemberLimitReached, InsufficientReputation{required, actual} (carrying
\* min_reputation and the reputation supplied), ProofRequired, in that order,
\* and succeeds iff none applies.
C14_MembershipErrorOrder ==
    [][\A agent_id \in Candidates, input \in MembershipInputs :
          request_membership(agent_id, input[1], input[2]) =>
            /\ last'.result = FirstMembershipError(agent_id, input[1], input[2])
            /\ last'.result = "InsufficientReputation" =>
                  /\ last'.required = min_reputation
                  /\ last'.actual = input[1]]_vars

\* C14 witness: with the member map at its cap, a candidate that is no member
\* was refused with MemberLimitReached
C14_Witness ==
    /\ last.op = "request_membership" /\ last.result = "MemberLimitReached"
    /\ Cardinality(DOMAIN members) = max_members

\* C15: a successful request_membership(agent, ...) leaves the member map
\* unchanged, the candidate no member, and adds exactly one proposal, under
\* the id it returns: type AddMember{agent}, proposer "system", status Active,
\* zero tallies, no voters, deadline = now + proposal_duration.
C15_RequestCreatesProposalOnly ==
    [][\A agent_id \in Candidates, input \in MembershipInputs :
          (request_membership(agent_id, input[1], input[2]) /\ last'.result = "Ok") =>
            /\ members' = members
            /\ agent_id \notin DOMAIN members'
            /\ last'.id \notin DOMAIN proposals
            /\ DOMAIN proposals' = DOMAIN proposals \cup {last'.id}
            /\ \A id \in DOMAIN proposals : proposals'[id] = proposals[id]
            /\ proposals'[last'.id].id = last'.id
            /\ proposals'[last'.id].proposal_type
                  = [kind |-> "AddMember", agent_id |-> agent_id]
            /\ proposals'[last'.id].proposer = "system"
            /\ proposals'[last'.id].status = "Active"
            /\ proposals'[last'.id].votes_for = 0
            /\ proposals'[last'.id].votes_against = 0
            /\ proposals'[last'.id].voters = <<>>
            /\ proposals'[last'.id].deadline = now + proposal_duration]_vars

\* C15 witness: request_membership succeeded after the clock had advanced, in
\* a syndicate with members and an earlier proposal, for a candidate that is
\* still no member
C15_Witness ==
    /\ last.op = "request_membership" /\ last.result = "Ok"
    /\ now > 0
    /\ members # <<>>
    /\ Cardinality(DOMAIN proposals) = 2
    /\ proposals[last.id].proposal_type.agent_id \notin DOMAIN members
    /\ proposals[last.id].deadline = now + proposal_duration

\* C16: an agent is in the member map with role Member only if an AddMember
\* proposal naming it has been finalized with status Passed.
C16_MemberOnlyAfterPassed ==
    \A agent_id \in DOMAIN members :
        members[agent_id].role = "Member" =>
            \E id \in DOMAIN proposals :
                /\ proposals[id].proposal_type
                      = [kind |-> "AddMember", agent_id |-> agent_id]
                /\ proposals[id].status = "Passed"

\* C17: a successful finalize_proposal changes nothing but the status of the
\* proposal it names: the member map, the proposal counter, the delegation
\* table, every other proposal, and the tallies and voter map of the named
\* proposal stay as they were, also when an AddMember or RemoveMember
\* proposal Passed.
C17_FinalizeWritesStatusOnly ==
    [][\A id \in DOMAIN proposals :
          (finalize_proposal(id) /\ last'.result = "Ok") =>
            /\ members' = members
            /\ proposal_counter' = proposal_counter
            /\ delegations' = delegations
            /\ DOMAIN proposals' = DOMAIN proposals
            /\ \A other \in DOMAIN proposals \ {id} :
                  proposals'[other] = proposals[other]
            /\ proposals'[id] = [proposals[id] EXCEPT !.status = last'.status]
            /\ last'.status \in Terminal]_vars

\* C17 witness: of two proposals the voted RemoveMember one was finalized as
\* Passed, and the member it names is still a member
C17_Witness ==
    /\ last.op = "finalize_proposal" /\ last.result = "Ok" /\ last.status = "Passed"
    /\ "a" \in DOMAIN members
    /\ \E id, other \in DOMAIN proposals :
           /\ proposals[id].proposal_type = [kind |-> "RemoveMember", agent_id |-> "a"]
           /\ proposals[id].status = "Passed"
           /\ proposals[id].voters # <<>>
           /\ proposals[other].status = "Active"

\* the last link of the caller's chain
LastLink == chain[Len(chain)]

\* C18: on a non-empty chain of any length, add of a delegation whose
\* delegator_id differs from the delegatee_id of the last link fails with
\* ChainBroken, also when the last link forbids redelegation or the new
\* delegation is expired, and the chain is unchanged.
C18_BrokenAppendFails ==
    [][\A delegation \in ChainDelegationInputs :
          (/\ chain # <<>>
           /\ LastLink.delegatee_id # delegation.delegator_id
           /\ add(delegation))
              => last'.result = "ChainBroken" /\ chain' = chain]_vars

\* C18 witness: add failed with ChainBroken on a chain of two links whose last
\* link forbids redelegation, at a clock value at which every delegation
\* offered is expired
C18_Witness ==
    /\ last.op = "add" /\ last.result = "ChainBroken"
    /\ Len(chain) = 2
    /\ ~LastLink.can_redelegate
    /\ \A delegation \in ChainDelegationInputs : ~is_valid(delegation, now)

\* C19: on a continuous append add fails with RedelegationNotAllowed when
\* the last link has can_redelegate = false, otherwise with Expired when
\* now >= expires_at of the new delegation; on an empty chain only the expiry
\* is checked; on success the chain grows by exactly one link, the new
\* delegation is the last link, and the earlier links keep content and order.
C19_ContinuousAppend ==
    [][\A delegation \in ChainDelegationInputs :
          (/\ chain = <<>> \/ LastLink.delegatee_id = delegation.delegator_id
           /\ add(delegation))
              => /\ last'.result =
                      IF chain # <<>> /\ ~LastLink.can_redelegate
                      THEN "RedelegationNotAllowed"
                      ELSE IF now >= delegation.expires_at THEN "Expired"
                      ELSE "Ok"
                 /\ last'.result = "Ok" =>
                      /\ Len(chain') = Len(chain) + 1
                      /\ chain'[Len(chain')] = delegation
                      /\ \A i \in 1..Len(chain) : chain'[i] = chain[i]
                 /\ last'.result # "Ok" => chain' = chain]_vars

\* C19 witness: a second link was appended, after the clock had advanced, to
\* a first link of another delegator
C19_Witness ==
    /\ last.op = "add" /\ last.result = "Ok"
    /\ Len(chain) = 2
    /\ now > 0
    /\ chain[1].delegator_id # chain[2].delegator_id

\* C20: every chain built from the empty chain by successful and failed add
\* calls has, for each index i > 0, delegatee(link i-1) = delegator(link i)
\* and can_redelegate(link i-1) = true; so validate, at any clock value,
\* never returns ChainBrokenAtIndex on it.
C20_ChainContinuous ==
    /\ \A i \in 2..Len(chain) :
          /\ chain[i - 1].delegatee_id = chain[i].delegator_id
          /\ chain[i - 1].can_redelegate
    /\ \A t \in 0..(MaxTime + 1) :
          validate_result(chain, t).result # "ChainBrokenAtIndex"

\* C20 witness: a chain of two links, after an add that was refused because
\* its last link forbids redelegation
C20_Witness ==
    /\ last.op = "add" /\ last.result = "RedelegationNotAllowed"
    /\ Len(chain) = 2

\* the indices, counted from 0, at which the chain violates an invariant at
\* the current clock value
ExpiredAt == {i \in 0..(Len(chain) - 1) : now >= chain[i + 1].expires_at}
BrokenAt ==
    {i \in 1..(Len(chain) - 1) : chain[i + 1].delegator_id # chain[i].delegatee_id}
Smallest(S) == CHOOSE i \in S : \A j \in S : i <= j

\* C21: for every sequence of delegations and clock value, validate returns
\* Ok iff every link has now < expires_at and every consecutive pair is
\* continuous; otherwise it reports the smallest index at which a link is
\* expired (ExpiredAtIndex) or discontinuous with its predecessor
\* (ChainBrokenAtIndex); with all links unexpired a first break at index k
\* reports exactly k.
C21_ValidateFirstViolation ==
    [][validate =>
         /\ last'.result = "Ok" <=> ExpiredAt \cup BrokenAt = {}
         /\ last'.result # "Ok" =>
               /\ last'.num = Smallest(ExpiredAt \cup BrokenAt)
               /\ last'.result = IF last'.num \in ExpiredAt
                                    THEN "ExpiredAtIndex" ELSE "ChainBrokenAtIndex"
         /\ (ExpiredAt = {} /\ BrokenAt # {}) =>
               /\ last'.result = "ChainBrokenAtIndex"
               /\ last'.num = Smallest(BrokenAt)]_vars

\* C21 witness: validate reported the break at index 1 of a chain that add
\* would not have built, both links unexpired
C21_Witness ==
    /\ last.op = "validate" /\ last.result = "ChainBrokenAtIndex" /\ last.num = 1
    /\ Len(chain) >= 2
    /\ ExpiredAt = {}
    /\ chain[1].delegatee_id # chain[2].delegator_id

\* C22: add never succeeds on a chain that holds an expired link: right
\* after add returns Ok at a clock value, validate at that clock value
\* returns Ok.
C22_AppendKeepsChainValid ==
    [][(last'.op = "add" /\ last'.result = "Ok") =>
          validate_result(chain', now').result = "Ok"]_vars

\* C23: effective_permissions returns none for the empty chain and otherwise
\* the grant of the last link alone; after a successful add(d) it returns the
\* grant of d, after a failed add what it returned before.
C23_EffectiveIsLastGrant ==
    [][/\ \A delegation \in GrantDelegationInputs :
            add(delegation) =>
                effective_permissions(chain') =
                    IF last'.result = "Ok" THEN delegation.permissions
                    ELSE effective_permissions(chain)
       /\ effective_permissions(chain') = "None" <=> chain' = <<>>
       /\ chain' # <<>> =>
            \E delegation \in GrantDelegationInputs :
                /\ delegation = chain'[Len(chain')]
                /\ effective_permissions(chain') = delegation.permissions
      ]_vars

\* C23 witness: a link granting Full was appended to a link granting Limited
C23_Witness ==
    /\ last.op = "add" /\ last.result = "Ok"
    /\ Len(chain) = 2
    /\ chain[1].permissions = "Limited"
    /\ chain[2].permissions = "Full"
    /\ effective_permissions(chain) = "Full"

C25_ContributionNeverDecreases ==
    [][/\ \A agent_id \in Agents, amount \in AmountEdgeInputs :
            record_contribution(agent_id, amount) =>
                IF agent_id \in DOMAIN members
                THEN /\ last'.result = "Ok"
                     /\ ~u64_add_overflows(members[agent_id].contribution_score, amount)
                     /\ members'[agent_id].contribution_score =
                          u64_wrapping_add(members[agent_id].contribution_score, amount)
                ELSE /\ last'.result = "NotMember"
                     /\ members' = members
       /\ \A agent_id \in DOMAIN members :
            ~u64_lt(members'[agent_id].contribution_score,
                    members[agent_id].contribution_score)
       /\ last'.op # "record_contribution" =>
            \A agent_id \in DOMAIN members :
                members'[agent_id].contribution_score
                    = members[agent_id].contribution_score
      ]_vars

\* the tallies or the voter map of proposal id change in this step
BallotChanges(id) ==
    \/ proposals'[id].votes_for # proposals[id].votes_for
    \/ proposals'[id].votes_against # proposals[id].votes_against
    \/ proposals'[id].voters # proposals[id].voters

\* C26, as claimed: every successful vote happens at a clock value strictly
\* less than the deadline of the proposal, every successful finalize_proposal
\* at or after it.
C26_VoteStrictlyBeforeDeadline ==
    [][\A id \in DOMAIN proposals :
          /\ BallotChanges(id) =>
                /\ last'.op = "vote" /\ last'.result = "Ok"
                /\ now < proposals[id].deadline
          /\ (finalize_proposal(id) /\ last'.result = "Ok") =>
                now >= proposals[id].deadline]_vars

\* C26, amended: the tallies and the voter map of a proposal change only in
\* a successful vote, at a clock value <= its deadline, the deadline included:
\* a member that has not voted succeeds iff now <= deadline; a
\* finalize_proposal succeeds only at a clock value > the deadline, and on an
\* Active proposal iff now > deadline.
C26_VoteUpToDeadline ==
    [][\A id \in DOMAIN proposals :
          /\ BallotChanges(id) =>
                /\ last'.op = "vote" /\ last'.result = "Ok"
                /\ now <= proposals[id].deadline
          /\ \A voter \in DOMAIN members \ DOMAIN proposals[id].voters,
                approve \in BOOLEAN :
                vote(id, voter, approve) =>
                    (last'.result = "Ok" <=> now <= proposals[id].deadline)
          /\ (finalize_proposal(id) /\ last'.result = "Ok") =>
                now > proposals[id].deadline
          /\ (finalize_proposal(id) /\ proposals[id].status = "Active") =>
                (last'.result = "Ok" <=> now > proposals[id].deadline)]_vars

\* C26 witness: a vote succeeded at the deadline itself, after the clock had
\* advanced
C26_Witness ==
    /\ last.op = "vote" /\ last.result = "Ok"
    /\ now > 0
    /\ \E id \in DOMAIN proposals :
           /\ now = proposals[id].deadline
           /\ proposals[id].voters # <<>>
           /\ \A other \in DOMAIN proposals \ {id} : proposals[other].voters = <<>>

\* C27: in every reachable state every member's reputation, and so its
\* voting power, lies in 0..1000, whatever reputations are passed to
\* add_member and whatever deltas to update_reputation.
C27_ReputationInRange ==
    \A agent_id \in DOMAIN members :
        /\ members[agent_id].reputation \in 0..1000
        /\ members[agent_id].voting_power \in 0..1000

\* C28: for a ReputationRecord changed only through apply_event the score
\* stays in 0..1000 (an event of positive delta at 1000 leaves 1000, a slash
\* larger than the score leaves 0), the level is from_score(score),
\* total_events counts the events applied, and the history holds at most
\* the 100 most recent events in order.
C28_RecordBounds ==
    [][\A event \in EventInputs :
          apply_event(event) =>
            /\ last'.result = "Ok"
            /\ record'.score \in 0..1000
            /\ (record.score = 1000 /\ last'.num > 0) => record'.score = 1000
            /\ (event.kind = "Slashed" /\ event.x > record.score) => record'.score = 0
            /\ record'.level = from_score(record'.score)
            /\ record'.total_events = record.total_events + 1
            /\ Len(record'.history) = Min(record'.total_events, 100)
            /\ record'.history[Len(record'.history)].event = event
            /\ \A i \in 1..Len(record.history) :
                  record'.history[i] = record.history[i]]_vars

\* C29: for an existing proposal and a clock past its deadline
\* finalize_proposal returns Ok(Passed) or Ok(Rejected), never an error; a
\* proposal leaves Active only in a call of finalize_proposal on it (without
\* one it stays Active, also past its deadline); and when the clock keeps
\* advancing and finalize_proposal keeps being called, every Active proposal
\* whose deadline the clock can pass eventually leaves Active.
C29_LazyFinalization ==
    /\ [][\A id \in DOMAIN proposals :
            (finalize_proposal(id) /\ now > proposals[id].deadline) =>
                /\ last'.result = "Ok"
                /\ last'.status \in {"Passed", "Rejected"}
                /\ proposals'[id].status = last'.status]_vars
    /\ [][\A id \in DOMAIN proposals :
            (proposals[id].status = "Active" /\ proposals'[id].status # "Active")
                => finalize_proposal(id) /\ now > proposals[id].deadline]_vars
    /\ \A id \in AllocatedIds :
            (id \in DOMAIN proposals /\ proposals[id].status = "Active"
                /\ proposals[id].deadline < MaxTime)
            ~> (id \in DOMAIN proposals /\ proposals[id].status # "Active")

\* an Active proposal was left alone past its deadline, or one was
\* finalized past its deadline
C29_Witness ==
    /\ \E id \in DOMAIN proposals :
            proposals[id].status = "Active" /\ now > proposals[id].deadline
    /\ \E id \in DOMAIN proposals :
            /\ proposals[id].status # "Active" /\ now > proposals[id].deadline
            /\ last.op = "finalize_proposal" /\ last.status = proposals[id].status

\* C30: under a clock that never goes back, a vote succeeds only while
\* now <= deadline and an Active proposal is finalized only while
\* now > deadline; once a proposal has been finalized no vote on it succeeds
\* and its votes_for, votes_against and voters never change.
C30_NoVoteAfterFinalize ==
    [][/\ now' >= now
       /\ \A id \in DOMAIN proposals :
            /\ \A voter \in Agents, approve \in BOOLEAN :
                  (vote(id, voter, approve) /\ last'.result = "Ok")
                      => /\ now <= proposals[id].deadline
                         /\ proposals[id].status = "Active"
            /\ (finalize_proposal(id) /\ last'.result = "Ok"
                    /\ proposals[id].status = "Active")
                  => now > proposals[id].deadline
            /\ proposals[id].status # "Active" =>
                  /\ now > proposals[id].deadline
                  /\ proposals'[id].votes_for = proposals[id].votes_for
                  /\ proposals'[id].votes_against = proposals[id].votes_against
                  /\ proposals'[id].voters = proposals[id].voters]_vars

\* a vote was refused on a finalized proposal that holds a vote
C30_Witness ==
    /\ last.op = "vote" /\ last.result = "VotingClosed"
    /\ DOMAIN proposals # {}
    /\ \A id \in DOMAIN proposals :
           proposals[id].status # "Active" /\ proposals[id].voters # <<>>

\* C31: no proposal on which no vote was cast (votes_for = votes_against = 0,
\* no voters) is finalized as Passed.
C31_NoVoteNeverPasses ==
    \A id \in DOMAIN proposals :
        (proposals[id].votes_for = 0 /\ proposals[id].votes_against = 0
            /\ proposals[id].voters = <<>>)
        => proposals[id].status # "Passed"

\* C32: a Passed proposal holds at least the configured share of the votes
\* cast: votes_for * 10000 >= (votes_for + votes_against) * voting_threshold_bps.
C32_PassedHoldsShare ==
    \A id \in DOMAIN proposals :
        proposals[id].status = "Passed" =>
            proposals[id].votes_for * BPS_DENOMINATOR
                >= (proposals[id].votes_for + proposals[id].votes_against)
                       * voting_threshold_bps

\* C33: the number of members is at most config.max_members in every
\* state reached by add_founder, request_membership and add_member.
C33_MemberCap == Cardinality(DOMAIN members) <= max_members

\* C34: in every state reached through the operations of the Syndicate
\* every proposal is Active, Passed or Rejected (never Cancelled or
\* Executed), every member is active and MemberInactive is never returned;
\* a proposal is created Active and leaves Active only in a finalize_proposal
\* on it that returns Ok.
C34_StatusesInUse ==
    /\ [](/\ \A id \in DOMAIN proposals :
                proposals[id].status \in {"Active", "Passed", "Rejected"}
          /\ \A agent_id \in DOMAIN members : members[agent_id].active
          /\ last.result # "MemberInactive")
    /\ [][\A id \in DOMAIN proposals' :
            /\ id \notin DOMAIN proposals => proposals'[id].status = "Active"
            /\ (id \in DOMAIN proposals /\ proposals[id].status = "Active"
                    /\ proposals'[id].status # "Active")
                 => finalize_proposal(id) /\ last'.result = "Ok"]_vars

\* a proposal with a vote of a member was finalized as Rejected
C34_Witness ==
    /\ last.op = "finalize_proposal" /\ last.result = "Ok"
    /\ last.status = "Rejected"
    /\ \E id \in DOMAIN proposals :
           /\ proposals[id].status = "Rejected"
           /\ \E voter \in DOMAIN proposals[id].voters : voter \in DOMAIN members

\* C35: at most one Active AddMember proposal exists for a candidate: a
\* second request_membership for a candidate whose request is still Active
\* creates no proposal.
C35_OneActiveRequest ==
    \A id, other \in DOMAIN proposals :
        (/\ proposals[id].status = "Active" /\ proposals[other].status = "Active"
         /\ proposals[id].proposal_type.kind = "AddMember"
         /\ proposals[other].proposal_type = proposals[id].proposal_type)
        => id = other

\* C36: under a clock that never goes back a chain on which validate fails
\* keeps failing, whatever add appends to it, and a delegation that is
\* invalid stays invalid.
C36_ValidityDecays ==
    [][/\ now' >= now
       /\ validate_result(chain, now).result # "Ok"
            => validate_result(chain', now').result # "Ok"
       /\ \A i \in 1..Len(chain) :
            /\ chain'[i] = chain[i]
            /\ ~is_valid(chain[i], now) => ~is_valid(chain'[i], now')]_vars

\* add appended a link to a chain whose first link had expired, so that
\* validate failed before the call and fails after it
C36_Witness ==
    /\ last.op = "add" /\ last.result = "Ok"
    /\ Len(chain) = 2
    /\ validate_result(SubSeq(chain, 1, 1), now).result # "Ok"
    /\ validate_result(chain, now).result # "Ok"

\* C37: at a fixed clock value the votes of two distinct members on a
\* proposal give the same two results and the same proposal map in either
\* order; a vote and an update_reputation of the same member that changes
\* the member's voting power do not: the weight recorded is the one read
\* when vote runs.
C37_VotesCommute ==
    /\ [](\A id \in ProposalIdInputs, a \in Agents, b \in Agents,
             x \in BOOLEAN, y \in BOOLEAN :
            /\ a # b =>
                 LET after_a == voted(members, proposals, now, id, a, x)
                     after_b == voted(members, proposals, now, id, b, y)
                 IN /\ vote_check(members, after_b, now, id, a)
                         = vote_check(members, proposals, now, id, a)
                    /\ vote_check(members, after_a, now, id, b)
                         = vote_check(members, proposals, now, id, b)
                    /\ voted(members, after_a, now, id, b, y)
                         = voted(members, after_b, now, id, a, x)
            /\ \A delta \in DeltaInputs :
                 (/\ vote_check(members, proposals, now, id, a) = "Ok"
                  /\ ~add_overflows(as_i32(members[a].reputation), delta)
                  /\ updated(members, a, delta)[a].voting_power
                        # members[a].voting_power)
                 => voted(updated(members, a, delta), proposals, now, id, a, x)
                        # voted(members, proposals, now, id, a, x))
    /\ [][/\ \A id \in ProposalIdInputs, a \in Agents, x \in BOOLEAN :
              vote(id, a, x) =>
                 /\ last'.result = vote_check(members, proposals, now, id, a)
                 /\ proposals' = voted(members, proposals, now, id, a, x)
                 /\ members' = members
          /\ \A a \in Agents, delta \in DeltaInputs :
              (update_reputation(a, delta) /\ last'.result = "Ok")
                 => members' = updated(members, a, delta) /\ proposals' = proposals
         ]_vars

\* two members of different voting power voted on a proposal, one for
\* and one against
C37_Witness ==
    /\ last.op = "vote" /\ last.result = "Ok"
    /\ \E id \in DOMAIN proposals :
           /\ DOMAIN proposals[id].voters = Agents
           /\ proposals[id].votes_for > 0 /\ proposals[id].votes_against > 0
           /\ proposals[id].votes_for # proposals[id].votes_against

\* C38: leaderboard(n) returns the top n tracked agents: at most n entries,
\* all tracked agents when there are fewer, in non-increasing order of their
\* current score, and no tracked agent outside the result scores higher than
\* one inside it.
C38_LeaderboardIsTop ==
    [][\A count \in CountInputs :
          leaderboard(count) =>
            LET result == last'.value
                score(agent_id) == tracker'.records[agent_id].score
                inside == {result[i] : i \in DOMAIN result}
            IN  /\ Len(result) = Min(count, Cardinality(DOMAIN tracker'.records))
                /\ \A i, j \in DOMAIN result :
                      i < j => score(result[i]) >= score(result[j])
                /\ \A agent_id \in DOMAIN tracker'.records \ inside :
                      \A i \in DOMAIN result : score(agent_id) <= score(result[i])
      ]_vars

\* C39: once the status of a registered agent is Revoked no register,
\* update_status or refresh_attestation changes it; refresh_attestation
\* changes a status only from Pending to Active.
C39_RevokedIsPermanent ==
    [][\A agent_id \in DOMAIN registry.agents :
          /\ registry.agents[agent_id].status = "Revoked"
                => registry'.agents[agent_id].status = "Revoked"
          /\ \A quote \in QuoteInputs :
                refresh_attestation(agent_id, quote) =>
                    \/ registry'.agents[agent_id].status
                          = registry.agents[agent_id].status
                    \/ /\ registry.agents[agent_id].status = "Pending"
                       /\ registry'.agents[agent_id].status = "Active"]_vars
====
